---- MODULE Spec2Model ----
(***************************************************************************)
(* Model of SunoAIClient.get_task_status (src/plugin.py): one status query *)
(* receives an HTTP response and normalises it into a result dictionary    *)
(* (specification Spec), and of the command handlers SunoSingCommand and   *)
(* SunoLyricsCommand that submit a job and poll its status (specification  *)
(* HandlerSpec), and of status queries that several invocations run at the *)
(* same time (specification ClientSpec), and of song invocations that      *)
(* write their temporary audio file into one directory (FileSpec).         *)
(*                                                                         *)
(* JSON values are tagged records; a string is a sequence of atoms, where  *)
(* an atom is one whitespace character, one backtick, or a maximal run of  *)
(* other characters (a word such as a URL or a status token).              *)
(***************************************************************************)
EXTENDS Integers, Sequences, FiniteSets, TLC

VARIABLES
    \* the HTTP response the client received last, what get_task_status
    \* returned for the response of a status query, and the position of the
    \* query
    response, result, pc,
    \* one command invocation: what the host passed in, the position of the
    \* handler and the locals of execute()
    invocation, hpc, prompt, task_id, client, consecutive_errors, found,
    \* seconds on the clock since start_time was taken
    elapsed,
    \* the temporary audio file of the invocation
    temp_file,
    \* the messages delivered to the chat since the handler last went to
    \* sleep, the HTTP requests issued so far, and the value returned
    sent, requests, ret,
    \* history of the status queries: the current run of failed queries and
    \* the terminal status a query has reported
    failed_run, terminal,
    \* status queries that run concurrently: the client objects, the calls in
    \* flight, the first call answered with each response, and the last call
    \* that returned
    clients, calls, seen, last,
    \* song invocations that share the working directory: the clock in whole
    \* seconds, the files of the directory, and each invocation's position,
    \* file name and the audio it sent
    clock, files, songs

queryVars == <<response, result, pc>>

handlerVars ==
    << invocation, hpc, prompt, task_id, client, consecutive_errors, found,
       elapsed, temp_file, sent, requests, ret, failed_run, terminal >>

clientVars == <<clients, calls, seen, last>>

fileVars == <<clock, files, songs>>

vars == <<queryVars, handlerVars, clientVars, fileVars>>

----------------------------------------------------------------------------
(* Bounds of the explored inputs *)

\* number of elements of a list placed under results / clips / data
MaxListLen == 2
\* number of whitespace characters padded on each side of a wrapped URL
MaxPad == 1

----------------------------------------------------------------------------
(* JSON / Python values *)

None == [k |-> "null"]
Str(s) == [k |-> "str", s |-> s]
Num(n) == [k |-> "num", n |-> n]
Obj(f) == [k |-> "obj", f |-> f]
List(items) == [k |-> "list", items |-> items]

EmptyDict == Obj(<<>>)
EmptyList == List(<<>>)

IsDict(v) == v.k = "obj"
IsList(v) == v.k = "list"
IsStr(v) == v.k = "str"

\* Python truth value of a decoded JSON value
Truthy(v) ==
    CASE v.k = "null" -> FALSE
      [] v.k = "str"  -> Len(v.s) > 0
      [] v.k = "num"  -> v.n # 0
      [] v.k = "obj"  -> DOMAIN v.f # {}
      [] v.k = "list" -> Len(v.items) > 0

\* a or b
Or(a, b) == IF Truthy(a) THEN a ELSE b

\* d.get(key, default) on a dict
GetDef(d, key, default) == IF key \in DOMAIN d.f THEN d.f[key] ELSE default

\* d.get(key)
Get(d, key) == GetDef(d, key, None)

\* key in d
HasKey(d, key) == key \in DOMAIN d.f

\* a variant of the or-chain in which a later key overrides an earlier one
RECURSIVE OrGetLastWins(_, _)
OrGetLastWins(d, keys) ==
    IF Len(keys) = 1 THEN Get(d, keys[1])
    ELSE Or(OrGetLastWins(d, Tail(keys)), Get(d, Head(keys)))

\* d.get(k1) or d.get(k2) or ... : the first truthy value, else the last one
RECURSIVE OrGet(_, _)
OrGet(d, keys) ==
    IF Len(keys) = 1 THEN Get(d, keys[1])
    ELSE Or(Get(d, Head(keys)), OrGet(d, Tail(keys)))

\* for field in fields: if d.get(field): cur = d.get(field); break
RECURSIVE FirstTruthy(_, _, _)
FirstTruthy(d, fields, cur) ==
    IF fields = <<>> THEN cur
    ELSE IF Truthy(Get(d, Head(fields))) THEN Get(d, Head(fields))
    ELSE FirstTruthy(d, Tail(fields), cur)

----------------------------------------------------------------------------
(* Field-name tables of get_task_status *)

potential_url_fields ==
    << "audio_url", "url", "song_url", "play_url", "download_url",
       "audio", "audio_file", "file_url", "mp3_url", "mp3",
       "song", "music_url", "music_file", "download", "play" >>

clip_id_fields == <<"id", "clip_id", "clipId">>
image_url_fields == <<"image_url", "cover_url", "thumbnail_url">>
lyrics_fields == <<"prompt", "lyrics", "text", "content">>
title_fields == <<"title", "name", "display_name">>
author_fields == <<"handle", "display_name", "author">>

nested_keys == <<"clip", "audio", "result", "data">>
deep_keys == <<"clip", "audio", "result">>

\* a variant of the mapping that passes the remote token FAILURE through
status_mapping_untranslated(status) ==
    IF ~IsStr(status) THEN "PROCESSING"
    ELSE CASE status.s = <<"SUCCESS">> -> "SUCCESS"
           [] status.s = <<"FAILURE">> -> "FAILURE"
           [] OTHER                    -> "PROCESSING"

\* status_mapping.get(status, "PROCESSING") for a hashable status
status_mapping(status) ==
    IF ~IsStr(status) THEN "PROCESSING"
    ELSE CASE status.s = <<"SUCCESS">>     -> "SUCCESS"
           [] status.s = <<"FAILURE">>     -> "FAILED"
           [] status.s = <<"IN_PROGRESS">> -> "PROCESSING"
           [] status.s = <<"QUEUED">>      -> "PROCESSING"
           [] status.s = <<"SUBMITTED">>   -> "PROCESSING"
           [] status.s = <<"NOT_START">>   -> "PROCESSING"
           [] OTHER                        -> "PROCESSING"

\* dict.get raises TypeError on a key that is a list or a dict
Unhashable(v) == v.k \in {"obj", "list"}

----------------------------------------------------------------------------
(* String operations *)

Whitespace == {" ", "\n"}

RECURSIVE LStrip(_)
LStrip(s) ==
    IF s # <<>> /\ Head(s) \in Whitespace THEN LStrip(Tail(s)) ELSE s

RECURSIVE RStrip(_)
RStrip(s) ==
    IF s # <<>> /\ s[Len(s)] \in Whitespace
    THEN RStrip(SubSeq(s, 1, Len(s) - 1)) ELSE s

\* s.strip()
Strip(s) == RStrip(LStrip(s))

\* the backtick character (U+0060)
Backtick == "BACKTICK"

\* if s starts with a backtick and ends with a backtick: s = s[1:-1]
StripBackticks(s) ==
    IF s # <<>> /\ s[1] = Backtick /\ s[Len(s)] = Backtick
    THEN SubSeq(s, 2, Len(s) - 1) ELSE s

\* a variant of the clean-up that removes the backticks before it trims
CleanUrlBackticksFirst(s) == Strip(StripBackticks(s))

\* the clean-up of song_url / image_url
CleanUrl(s) == StripBackticks(Strip(s))

----------------------------------------------------------------------------
(* JSON texts carried inside a string-typed data field *)

\* the keys of a dict in a fixed enumeration order, for serialisation
KeyOrder ==
    <<"status", "id", "title", "prompt", "audio_url", "image_url", "clip">>

RECURSIVE Join(_, _)
Join(parts, sep) ==
    IF parts = <<>> THEN <<>>
    ELSE IF Len(parts) = 1 THEN parts[1]
    ELSE parts[1] \o sep \o Join(Tail(parts), sep)

\* json.dumps(v) as a sequence of atoms
RECURSIVE JsonDumps(_)
JsonDumps(v) ==
    CASE v.k = "null" -> <<"null">>
      [] v.k = "num"  -> <<"5">>
      [] v.k = "str"  -> <<"\"">> \o v.s \o <<"\"">>
      [] v.k = "list" ->
            <<"[">> \o Join([i \in 1..Len(v.items) |-> JsonDumps(v.items[i])],
                            <<",">>) \o <<"]">>
      [] v.k = "obj"  ->
            LET present == SelectSeq(KeyOrder, LAMBDA key : key \in DOMAIN v.f)
                member(key) == <<"\"", key, "\"", ":">> \o JsonDumps(v.f[key])
            IN  <<"{">> \o Join([i \in 1..Len(present) |-> member(present[i])],
                                <<",">>) \o <<"}">>

\* the decoded values whose texts the explored string payloads can carry
JsonDocs ==
    LET objs == { Obj([status |-> Str(<<"SUCCESS">>)]),
                  Obj([status |-> Str(<<"SUCCESS">>),
                       audio_url |-> Str(<<"http://h/a.mp3">>)]),
                  Obj([id |-> Str(<<"c1">>), title |-> Str(<<"T">>)]),
                  EmptyDict }
    IN  objs \cup { List(<<o>>) : o \in objs } \cup { EmptyList, None, Num(5) }

\* json.loads(s): the document whose text is s, or a JSONDecodeError
IsJsonText(s) == \E v \in JsonDocs : JsonDumps(v) = s
JsonLoads(s) == CHOOSE v \in JsonDocs : JsonDumps(v) = s

\* lines 196-207: a string-typed task_data is tried as JSON
CoerceTaskData(task_data) ==
    IF IsStr(task_data) /\ IsJsonText(task_data.s)
    THEN LET task_data_json == JsonLoads(task_data.s) IN
         IF IsDict(task_data_json) THEN task_data_json
         ELSE IF IsList(task_data_json) /\ Truthy(task_data_json)
              THEN task_data_json.items[1]
              ELSE task_data
    ELSE task_data

\* words matched by url_pattern: http(s)://, then characters other than
\* whitespace, quotes and <, then a dot and one of mp3 wav aac flac ogg
AudioUrlWords ==
    { "http://h/a.mp3", "https://h/b.wav", "http://h/c.aac",
      "http://h/d.flac", "http://h/e.ogg" }

\* re.findall(url_pattern, s): the matching words, in order
ReFindAll(s) == SelectSeq(s, LAMBDA w : w \in AudioUrlWords)

----------------------------------------------------------------------------
(* The media-URL and clip-id search, lines 210-283 *)

\* lines 242-254: one level deeper inside a container
RECURSIVE DeepScan(_, _, _)
DeepScan(nested, j, st) ==
    IF j > Len(deep_keys) THEN st
    ELSE LET deep_nested == GetDef(nested, deep_keys[j], EmptyDict) IN
         IF ~IsDict(deep_nested) THEN DeepScan(nested, j + 1, st)
         ELSE LET st1 == [clip_id  |-> Or(st.clip_id,
                                          OrGet(deep_nested, clip_id_fields)),
                          song_url |-> FirstTruthy(deep_nested,
                                          potential_url_fields, st.song_url)]
              IN  IF Truthy(st1.song_url) THEN st1
                  ELSE DeepScan(nested, j + 1, st1)

\* a variant of the container search that tries all four containers before
\* it looks one level deeper
RECURSIVE ShallowPass(_, _, _)
ShallowPass(task_data, i, st) ==
    IF i > Len(nested_keys) THEN st
    ELSE LET nested == GetDef(task_data, nested_keys[i], EmptyDict) IN
         IF ~IsDict(nested) THEN ShallowPass(task_data, i + 1, st)
         ELSE LET st1 == [clip_id  |-> Or(st.clip_id,
                                          OrGet(nested, clip_id_fields)),
                          song_url |-> FirstTruthy(nested,
                                          potential_url_fields, st.song_url)]
              IN  IF Truthy(st1.song_url) THEN st1
                  ELSE ShallowPass(task_data, i + 1, st1)

RECURSIVE DeepPass(_, _, _)
DeepPass(task_data, i, st) ==
    IF i > Len(nested_keys) THEN st
    ELSE LET nested == GetDef(task_data, nested_keys[i], EmptyDict) IN
         IF ~IsDict(nested) THEN DeepPass(task_data, i + 1, st)
         ELSE LET st1 == DeepScan(nested, 1, st) IN
              IF Truthy(st1.song_url) THEN st1
              ELSE DeepPass(task_data, i + 1, st1)

NestedScanShallowFirst(task_data, i, st) ==
    LET st1 == ShallowPass(task_data, i, st) IN
    IF Truthy(st1.song_url) THEN st1 ELSE DeepPass(task_data, i, st1)

\* lines 227-256: the containers clip, audio, result, data in turn, each
\* followed at once by its own sub-containers
RECURSIVE NestedScan(_, _, _)
NestedScan(task_data, i, st) ==
    IF i > Len(nested_keys) THEN st
    ELSE LET nested == GetDef(task_data, nested_keys[i], EmptyDict) IN
         IF ~IsDict(nested) THEN NestedScan(task_data, i + 1, st)
         ELSE LET st1 == [clip_id  |-> Or(st.clip_id,
                                          OrGet(nested, clip_id_fields)),
                          song_url |-> FirstTruthy(nested,
                                          potential_url_fields, st.song_url)]
              IN  IF Truthy(st1.song_url) THEN st1
                  ELSE LET st2 == DeepScan(nested, 1, st1) IN
                       IF Truthy(st2.song_url) THEN st2
                       ELSE NestedScan(task_data, i + 1, st2)

\* lines 259-266
AudioInfoScan(task_data, st) ==
    LET audio_info == Or(GetDef(task_data, "audio_info", EmptyDict),
                         GetDef(task_data, "audioInfo", EmptyDict))
    IN  IF IsDict(audio_info)
        THEN [st EXCEPT !.song_url =
                 FirstTruthy(audio_info, potential_url_fields, st.song_url)]
        ELSE st

\* lines 272-283: every element of the list until a URL is found
RECURSIVE ResultsLoop(_, _, _)
ResultsLoop(items, i, st) ==
    IF i > Len(items) THEN st
    ELSE LET item == items[i]
             st1 == IF IsDict(item)
                    THEN [clip_id  |-> Or(st.clip_id,
                                          OrGet(item, clip_id_fields)),
                          song_url |-> FirstTruthy(item,
                                          potential_url_fields, st.song_url)]
                    ELSE st
         IN  IF Truthy(st1.song_url) THEN st1
             ELSE ResultsLoop(items, i + 1, st1)

\* lines 269-283
ResultsScan(task_data, st) ==
    LET results == Or(GetDef(task_data, "results", EmptyList),
                      GetDef(task_data, "clips", EmptyList))
    IN  IF IsList(results) THEN ResultsLoop(results.items, 1, st) ELSE st

\* lines 210-283 for a dict task_data
UrlSearch(task_data) ==
    LET st0 == [clip_id  |-> OrGet(task_data, clip_id_fields),
                song_url |-> FirstTruthy(task_data, potential_url_fields, None)]
        st1 == IF ~Truthy(st0.song_url) THEN NestedScan(task_data, 1, st0)
               ELSE st0
        st2 == IF ~Truthy(st1.song_url) THEN AudioInfoScan(task_data, st1)
               ELSE st1
    IN  IF ~Truthy(st2.song_url) THEN ResultsScan(task_data, st2) ELSE st2

\* lines 286-293: a URL picked out of the raw text of a string task_data
RawTextScan(task_data, st) ==
    IF ~Truthy(st.song_url) /\ IsStr(task_data)
       /\ ReFindAll(task_data.s) # <<>>
    THEN [st EXCEPT !.song_url = Str(<<ReFindAll(task_data.s)[1]>>)]
    ELSE st

----------------------------------------------------------------------------
(* The extraction of the other resources, lines 307-401 *)

AllFound(rs) ==
    /\ Truthy(rs.image_url) /\ Truthy(rs.lyrics) /\ Truthy(rs.title)
    /\ Truthy(rs.author) /\ Truthy(rs.clip_id) /\ Truthy(rs.song_url)

\* lines 319-336: the data object carries audio_url, image_url or prompt
DirectResources(task_data, rs) ==
    [ song_url  |-> IF ~Truthy(rs.song_url)
                    THEN FirstTruthy(task_data, potential_url_fields, rs.song_url)
                    ELSE rs.song_url,
      image_url |-> OrGet(task_data, image_url_fields),
      lyrics    |-> OrGet(task_data, lyrics_fields),
      title     |-> OrGet(task_data, title_fields),
      author    |-> OrGet(task_data, author_fields),
      clip_id   |-> IF ~Truthy(rs.clip_id) THEN OrGet(task_data, clip_id_fields)
                    ELSE rs.clip_id ]

\* lines 343-363: the first element of the resource list
ListResources(resource_list, rs) ==
    LET result_item == resource_list.items[1] IN
    IF IsDict(result_item)
    THEN [ image_url |-> OrGet(result_item, image_url_fields),
           lyrics    |-> OrGet(result_item, lyrics_fields),
           title     |-> OrGet(result_item, title_fields),
           author    |-> OrGet(result_item, author_fields),
           song_url  |-> IF ~Truthy(rs.song_url)
                         THEN FirstTruthy(result_item, potential_url_fields,
                                          rs.song_url)
                         ELSE rs.song_url,
           clip_id   |-> IF ~Truthy(rs.clip_id)
                         THEN OrGet(result_item, clip_id_fields)
                         ELSE rs.clip_id ]
    ELSE rs

\* lines 384-399: what is still missing, taken from one container
FillFrom(d, rs) ==
    [ image_url |-> IF ~Truthy(rs.image_url) THEN OrGet(d, image_url_fields)
                    ELSE rs.image_url,
      lyrics    |-> IF ~Truthy(rs.lyrics) THEN OrGet(d, lyrics_fields)
                    ELSE rs.lyrics,
      title     |-> IF ~Truthy(rs.title) THEN OrGet(d, title_fields)
                    ELSE rs.title,
      author    |-> IF ~Truthy(rs.author) THEN OrGet(d, author_fields)
                    ELSE rs.author,
      clip_id   |-> IF ~Truthy(rs.clip_id) THEN OrGet(d, clip_id_fields)
                    ELSE rs.clip_id,
      song_url  |-> IF ~Truthy(rs.song_url)
                    THEN FirstTruthy(d, potential_url_fields, rs.song_url)
                    ELSE rs.song_url ]

\* lines 381-401
RECURSIVE NestedResources(_, _, _)
NestedResources(task_data, i, rs) ==
    IF i > Len(nested_keys) THEN rs
    ELSE LET nested == GetDef(task_data, nested_keys[i], EmptyDict) IN
         IF ~IsDict(nested) THEN NestedResources(task_data, i + 1, rs)
         ELSE LET rs1 == FillFrom(nested, rs) IN
              IF AllFound(rs1) THEN rs1
              ELSE NestedResources(task_data, i + 1, rs1)

\* lines 366-401: the data object itself, then its containers
FallbackResources(task_data, rs) ==
    LET rs1 == [ FillFrom(task_data, rs) EXCEPT !.song_url = rs.song_url ] IN
    IF ~AllFound(rs1) THEN NestedResources(task_data, 1, rs1) ELSE rs1

\* lines 307-401
ExtractResources(task_data, st) ==
    LET rs0 == [ song_url |-> st.song_url, clip_id |-> st.clip_id,
                 image_url |-> None, lyrics |-> None,
                 title |-> None, author |-> None ]
    IN  IF ~IsDict(task_data) THEN rs0
        ELSE IF HasKey(task_data, "audio_url") \/ HasKey(task_data, "image_url")
                \/ HasKey(task_data, "prompt")
        THEN DirectResources(task_data, rs0)
        ELSE LET resource_list ==
                     Or(Or(GetDef(task_data, "data", EmptyList),
                           GetDef(task_data, "results", EmptyList)),
                        GetDef(task_data, "clips", EmptyList))
             IN  IF IsList(resource_list) /\ Truthy(resource_list)
                 THEN ListResources(resource_list, rs0)
                 ELSE FallbackResources(task_data, rs0)

----------------------------------------------------------------------------
(* Control-flow outcomes: a returned value or a raised exception *)

Return(v) == [out |-> "return", v |-> v]
Raise(e) == [out |-> "raise", e |-> e]

Failure(error) == [success |-> FALSE, error |-> error]

\* lines 403-432: clean the URLs, log, build the result dictionary
Finish(task_data, mapped_status, rs) ==
    IF Truthy(rs.song_url) /\ ~IsStr(rs.song_url)
    THEN Raise("AttributeError: no attribute 'strip'")
    ELSE IF Truthy(rs.image_url) /\ ~IsStr(rs.image_url)
    THEN Raise("AttributeError: no attribute 'strip'")
    ELSE IF Truthy(rs.lyrics) /\ ~IsStr(rs.lyrics) /\ ~IsList(rs.lyrics)
    THEN Raise("TypeError: lyrics[:100]")
    ELSE Return(
      [ success |-> TRUE,
        data |->
          [ status    |-> mapped_status,
            progress  |-> IF mapped_status = "SUCCESS" THEN 100 ELSE 50,
            song_url  |-> IF Truthy(rs.song_url)
                          THEN Str(CleanUrl(rs.song_url.s)) ELSE rs.song_url,
            image_url |-> IF Truthy(rs.image_url)
                          THEN Str(CleanUrl(rs.image_url.s)) ELSE rs.image_url,
            lyrics    |-> rs.lyrics,
            title     |-> Or(rs.title, IF IsDict(task_data)
                                       THEN Get(task_data, "title") ELSE None),
            author    |-> rs.author,
            clip      |-> EmptyDict,
            clip_id   |-> rs.clip_id,
            raw_data  |-> task_data ] ])

\* lines 167-432: the branch taken when code is "success"
Normalize(data) ==
    LET task_data0 == GetDef(data, "data", EmptyDict) IN
    IF ~IsDict(task_data0)
    THEN Raise("AttributeError: no attribute 'get'")
    ELSE LET status == GetDef(task_data0, "status", Str(<<"PROCESSING">>)) IN
         IF Unhashable(status) THEN Raise("TypeError: unhashable type")
         ELSE LET mapped_status == status_mapping(status)
                  task_data == CoerceTaskData(task_data0)
                  st0 == [ clip_id  |-> IF IsStr(task_data0) THEN task_data0
                                        ELSE None,
                           song_url |-> None ]
                  st1 == IF IsDict(task_data) THEN UrlSearch(task_data)
                         ELSE st0
                  st2 == RawTextScan(task_data, st1)
              IN  Finish(task_data, mapped_status,
                         ExtractResources(task_data, st2))

----------------------------------------------------------------------------
(* The HTTP exchange, lines 146-166 and 433-448 *)

HtmlContentTypes == {"text/html", "text/html; charset=utf-8"}
JsonContentTypes == {"application/json"}

\* line 445
HttpError(status) == Str(<<"HTTP_" \o ToString(status)>>)

\* a variant of the dispatch that normalises whatever the code field says
DecodeAndDispatchAnyCode(resp) ==
    IF resp.content_type \notin JsonContentTypes
    THEN Raise("ContentTypeError")
    ELSE IF ~resp.body.valid
    THEN Return(Failure(Str(<<"JSON_DECODE_ERROR">>)))
    ELSE LET data == resp.body.json IN
         IF ~IsDict(data)
         THEN Return(Failure(Str(<<"INVALID_RESPONSE_FORMAT">>)))
         ELSE Normalize(data)

\* lines 163-166 and 433-442: response.json() and the dispatch on its value
DecodeAndDispatch(resp) ==
    IF resp.content_type \notin JsonContentTypes
    THEN Raise("ContentTypeError")
    ELSE IF ~resp.body.valid
    THEN Return(Failure(Str(<<"JSON_DECODE_ERROR">>)))
    ELSE LET data == resp.body.json IN
         IF ~IsDict(data)
         THEN Return(Failure(Str(<<"INVALID_RESPONSE_FORMAT">>)))
         ELSE IF Get(data, "code") = Str(<<"success">>)
         THEN Normalize(data)
         ELSE Return(Failure(Get(data, "message")))

\* a variant of the try block that hands every 200 response to the decoder
\* without looking at its content type first
TryBlockDecodeFirst(resp) ==
    IF resp.kind = "exception" THEN Raise(resp.e)
    ELSE IF resp.status # 200 THEN Return(Failure(HttpError(resp.status)))
    ELSE DecodeAndDispatch(resp)

\* lines 147-166, 433-445: the body of the try block
TryBlock(resp) ==
    IF resp.kind = "exception" THEN Raise(resp.e)
    ELSE IF resp.status # 200 THEN Return(Failure(HttpError(resp.status)))
    ELSE IF resp.content_type \in HtmlContentTypes
    THEN Return(Failure(Str(<<"HTML_RESPONSE">>)))
    ELSE DecodeAndDispatch(resp)

\* a variant without the handler: the exception leaves the function
Propagate(outcome) ==
    IF outcome.out = "raise" THEN outcome ELSE outcome.v

\* lines 446-448: except Exception as e
ExceptException(outcome) ==
    IF outcome.out = "raise" THEN Failure(Str(<<outcome.e>>)) ELSE outcome.v

\* SunoAIClient.get_task_status
get_task_status(resp) == ExceptException(TryBlock(resp))

----------------------------------------------------------------------------
(* The explored responses *)

\* a placement puts one value under one key at one place of the data object:
\* path is the chain of container keys leading to the place, and idx > 0
\* selects an element of the list stored under the (single) key of path
Place(path, idx, key, val) ==
    [path |-> path, idx |-> idx, key |-> key, val |-> val]

IsPrefix(a, b) == Len(a) <= Len(b) /\ SubSeq(b, 1, Len(a)) = a

\* the JSON object at a path, built from a set of placements
RECURSIVE BuildObject(_, _, _)
BuildObject(P, path, idx) ==
    LET here == { p \in P : p.path = path /\ p.idx = idx }
        below == IF idx > 0 THEN {}
                 ELSE { p \in P : Len(p.path) > Len(path) /\ IsPrefix(path, p.path) }
        childKeys == { p.path[Len(path) + 1] : p \in below }
        leafKeys == { p.key : p \in here } \ childKeys
        child(key) ==
            LET sub == path \o <<key>>
                n == IF \E p \in P : p.path = sub /\ p.idx > 0
                     THEN CHOOSE m \in 1..MaxListLen :
                            /\ \E p \in P : p.path = sub /\ p.idx = m
                            /\ \A p \in P : p.path = sub => p.idx <= m
                     ELSE 0
            IN  IF n > 0 THEN List([i \in 1..n |-> BuildObject(P, sub, i)])
                ELSE BuildObject(P, sub, 0)
    IN  Obj([key \in leafKeys \cup childKeys |->
               IF key \in childKeys THEN child(key)
               ELSE (CHOOSE p \in here : p.key = key).val])

Word(w) == Str(<<w>>)

RECURSIVE Pad(_)
Pad(n) == IF n = 0 THEN <<>> ELSE <<" ">> \o Pad(n - 1)

\* a URL wrapped in backticks and padded with whitespace
WrappedUrl == Str(Pad(MaxPad) \o <<Backtick, "http://h/a.mp3", Backtick>> \o Pad(MaxPad))

UrlValues ==
    { Word("http://h/a.mp3"), WrappedUrl, Str(<<>>), Str(Pad(MaxPad)),
      Str(<<Backtick, Backtick>>), Str(<<Backtick, "http://h/a.mp3">>),
      Str(<<Backtick>>) }

NonStringValues ==
    { None, Num(5), Num(0), EmptyDict,
      Obj([x |-> Word("y")]), List(<<Word("y")>>) }

StatusTokens ==
    { Word("SUCCESS"), Word("FAILURE"), Word("IN_PROGRESS"), Word("QUEUED"),
      Word("SUBMITTED"), Word("NOT_START"), Word("UNKNOWN"), Word("success"),
      Str(<<>>), None, Num(5), EmptyList }

RangeOf(seq) == { seq[i] : i \in 1..Len(seq) }

ResourceKeys ==
    RangeOf(clip_id_fields) \cup RangeOf(image_url_fields)
    \cup RangeOf(lyrics_fields) \cup RangeOf(title_fields)
    \cup RangeOf(author_fields)

ContainerKeys == RangeOf(nested_keys) \cup {"audio_info", "audioInfo"}
ListKeys == {"results", "clips", "data"}

\* every place the normaliser looks at, and two it does not
ObjectPaths ==
    {<<>>} \cup { <<c>> : c \in ContainerKeys }
    \cup { <<c, d>> : c \in RangeOf(nested_keys), d \in RangeOf(nested_keys) }

AllPlaces ==
    { [path |-> q, idx |-> 0] : q \in ObjectPaths }
    \cup { [path |-> <<l>>, idx |-> i] : l \in ListKeys, i \in 1..MaxListLen }

\* one value anywhere
SinglePlacements ==
    { Place(pl.path, pl.idx, key, val) :
        pl \in AllPlaces,
        key \in RangeOf(potential_url_fields) \cup ResourceKeys,
        val \in UrlValues \cup NonStringValues }
    \cup { Place(<<>>, 0, key, val) :
             key \in ContainerKeys \cup ListKeys,
             val \in {Word("c1")} \cup NonStringValues }

PairPaths == { <<>>, <<"clip">>, <<"result">>, <<"clip", "result">> }
PairPlaces ==
    { [path |-> q, idx |-> 0] : q \in PairPaths }
    \cup { [path |-> <<"clips">>, idx |-> i] : i \in 1..MaxListLen }

PairKeys ==
    {"audio_url", "url", "id", "image_url"} \cup RangeOf(lyrics_fields)
    \cup RangeOf(title_fields) \cup RangeOf(author_fields)
PairValues == { Word("A"), Word("B"), Str(<<>>) }

\* two values at a time are drawn from a smaller universe
PairPlacements ==
    { Place(pl.path, pl.idx, key, val) :
        pl \in PairPlaces, key \in PairKeys, val \in PairValues }
    \cup { Place(<<>>, 0, "status", tok) : tok \in StatusTokens }
    \cup { Place(<<>>, 0, key, val) :
             key \in {"data", "results"},
             val \in {Obj([x |-> Word("y")]), Word("c1")} }

\* the keys that are paired across different places
CrossKeys ==
    {"status", "audio_url", "title", "prompt", "id", "image_url",
     "data", "results"}

\* two placements in one object, or two placements of cross keys
Paired(p, q) ==
    \/ p.path = q.path /\ p.idx = q.idx
    \/ p.key \in CrossKeys /\ q.key \in CrossKeys

\* two placements that do not claim the same key
Compatible(p, q) ==
    /\ ~(p.path = q.path /\ p.idx = q.idx /\ p.key = q.key)
    /\ ~(p.idx = 0 /\ IsPrefix(p.path \o <<p.key>>, q.path))
    /\ ~(q.idx = 0 /\ IsPrefix(q.path \o <<q.key>>, p.path))
    /\ ~(p.idx > 0 /\ q.idx = 0 /\ IsPrefix(p.path, q.path))
    /\ ~(q.idx > 0 /\ p.idx = 0 /\ IsPrefix(q.path, p.path))

Body(code, data) == [valid |-> TRUE, json |-> Obj([code |-> code, data |-> data])]

OkResponse(data) ==
    [ kind |-> "http", status |-> 200, content_type |-> "application/json",
      body |-> Body(Word("success"), data) ]

\* what the data field holds when it is not an object built from placements
OtherData ==
    { None, Num(5), EmptyList, List(<<EmptyDict>>), EmptyDict,
      Word("clip-1"), Str(<<"see", " ", "http://h/a.mp3">>) }
    \cup { Str(JsonDumps(v)) : v \in JsonDocs }
    \cup { v \in JsonDocs : IsDict(v) }

Bodies ==
    { [valid |-> FALSE, json |-> None] }
    \cup { [valid |-> TRUE, json |-> v] : v \in {None, EmptyList, Word("ok"), EmptyDict} }
    \cup { Body(Word("success"), d) : d \in OtherData }
    \cup { [valid |-> TRUE, json |-> Obj([code |-> c, message |-> m, data |-> d])] :
             c \in {Word("success"), Word("error"), None},
             m \in {Word("bad"), None},
             d \in { EmptyDict, None,
                     Obj([status |-> Word("SUCCESS"),
                          audio_url |-> Word("http://h/a.mp3")]) } }
    \cup { [valid |-> TRUE, json |-> Obj([data |-> Obj([status |-> Word("SUCCESS")])])] }

Responses ==
    { [kind |-> "exception", e |-> e] : e \in {"ClientConnectorError", "TimeoutError"} }
    \cup { [kind |-> "http", status |-> st, content_type |-> ct, body |-> b] :
             st \in {200, 404, 500},
             ct \in HtmlContentTypes \cup JsonContentTypes \cup {"text/plain"},
             b \in Bodies }

----------------------------------------------------------------------------
(* One status query *)

\* the response reaches the normaliser with an object in its data field
DataIsObject ==
    /\ response.kind = "http" /\ response.status = 200
    /\ response.content_type \in JsonContentTypes
    /\ response.body.valid /\ IsDict(response.body.json)
    /\ Get(response.body.json, "code") = Word("success")
    /\ IsDict(GetDef(response.body.json, "data", EmptyDict))

\* that object
TaskData == GetDef(response.body.json, "data", EmptyDict)

\* no command invocation is under way
HandlerIdle ==
    /\ invocation = None /\ hpc = "idle" /\ prompt = <<>> /\ task_id = None
    /\ client = None /\ consecutive_errors = 0 /\ found = None
    /\ elapsed = 0 /\ temp_file = "absent" /\ sent = <<>>
    /\ requests = None /\ ret = None /\ failed_run = 0 /\ terminal = "none"

\* no concurrent status queries are under way
ClientsIdle == clients = None /\ calls = None /\ seen = None /\ last = None

\* no song invocations share the working directory
FilesIdle == clock = 0 /\ files = None /\ songs = None

Init ==
    /\ HandlerIdle
    /\ ClientsIdle
    /\ FilesIdle
    /\ pc = "start"
    /\ result = None
    /\ \/ response \in Responses
       \/ \E p \in SinglePlacements :
            response = OkResponse(BuildObject({p}, <<>>, 0))
       \/ \E p \in PairPlacements, q \in PairPlacements :
            /\ Paired(p, q) /\ Compatible(p, q)
            /\ response = OkResponse(BuildObject({p, q}, <<>>, 0))

\* result = await client.get_task_status(task_id)
Query ==
    /\ pc = "start"
    /\ result' = get_task_status(response)
    /\ pc' = "done"
    /\ UNCHANGED <<response, handlerVars, clientVars, fileVars>>

Next == Query

Spec == Init /\ [][Next]_vars

----------------------------------------------------------------------------
(* The API client as the handlers use it *)

\* the clock is read in units of the poll interval: the number of units by
\* which the clock of one invocation can run ahead of its sleeps in total
MaxLag == 1

\* SunoAIClient.__init__
SunoAIClient(cookie, api_base, api_key) ==
    [ cookie |-> cookie, api_base |-> api_base, api_key |-> api_key,
      headers |-> IF api_key # "" THEN <<"Content-Type", "User-Agent", "Authorization">>
                  ELSE <<"Content-Type", "User-Agent">> ]

\* a variant of the query that keeps a marker of the last answer on the client
\* and answers from it
StatusQueryCaching(self, resp) ==
    [ ret  |-> IF self.cookie = "seen" THEN Failure(Word("cached"))
               ELSE get_task_status(resp),
      self |-> [self EXCEPT !.cookie = "seen"] ]

\* await client.get_task_status(task_id): the value returned for the response
\* the request received, and the client after the call (the method assigns to
\* no attribute of self)
StatusQuery(self, resp) ==
    [ ret |-> get_task_status(resp), self |-> self ]

\* a variant of the submission that takes the data field whatever the code
generate_song_any_code(prompt_text, resp) ==
    IF prompt_text = <<>> THEN None
    ELSE IF resp.kind = "exception" THEN None
    ELSE IF resp.status # 200 THEN None
    ELSE IF resp.content_type \notin JsonContentTypes THEN None
    ELSE IF ~resp.body.valid THEN None
    ELSE IF ~IsDict(resp.body.json) THEN None
    ELSE IF ~HasKey(resp.body.json, "data") THEN None
    ELSE resp.body.json.f["data"]

\* SunoAIClient.generate_song and generate_lyrics, lines 108-132 and 554-577:
\* the task id for the response the submission received
generate_song(prompt_text, resp) ==
    IF prompt_text = <<>> THEN None
    ELSE IF resp.kind = "exception" THEN None
    ELSE IF resp.status # 200 THEN None
    ELSE IF resp.content_type \notin JsonContentTypes THEN None
    ELSE IF ~resp.body.valid THEN None
    ELSE IF ~IsDict(resp.body.json) THEN None
    ELSE IF Get(resp.body.json, "code") # Str(<<"success">>) THEN None
    ELSE IF ~HasKey(resp.body.json, "data") THEN None
    ELSE resp.body.json.f["data"]

\* lines 63-66 and 539-542: no request is sent for an empty prompt
SubmitRequests(prompt_text) == IF prompt_text = <<>> THEN 0 ELSE 1

\* the responses a submission can receive
SubmitResponses ==
    { [kind |-> "exception", e |-> "ClientConnectorError"],
      [kind |-> "http", status |-> 500, content_type |-> "application/json",
       body |-> [valid |-> FALSE, json |-> None]],
      [kind |-> "http", status |-> 200, content_type |-> "text/html",
       body |-> [valid |-> FALSE, json |-> None]],
      [kind |-> "http", status |-> 200, content_type |-> "application/json",
       body |-> [valid |-> FALSE, json |-> None]],
      [kind |-> "http", status |-> 200, content_type |-> "application/json",
       body |-> [valid |-> TRUE, json |-> EmptyList]],
      [kind |-> "http", status |-> 200, content_type |-> "application/json",
       body |-> [valid |-> TRUE,
                 json |-> Obj([code |-> Str(<<"error">>), data |-> Str(<<"t1">>)])]],
      [kind |-> "http", status |-> 200, content_type |-> "application/json",
       body |-> [valid |-> TRUE, json |-> Obj([code |-> Str(<<"success">>)])]],
      [kind |-> "http", status |-> 500, content_type |-> "application/json",
       body |-> [valid |-> TRUE,
                 json |-> Obj([code |-> Str(<<"success">>), data |-> Str(<<"t1">>)])]] }
    \cup { [kind |-> "http", status |-> 200, content_type |-> "application/json",
            body |-> [valid |-> TRUE,
                      json |-> Obj([code |-> Str(<<"success">>), data |-> d])]] :
             d \in { Str(<<"t1">>), Str(<<>>), None } }

\* the responses a status query of a poll loop can receive
PollResponses ==
    { [kind |-> "exception", e |-> "ClientConnectorError"],
      [kind |-> "http", status |-> 500, content_type |-> "application/json",
       body |-> [valid |-> FALSE, json |-> None]],
      [kind |-> "http", status |-> 200, content_type |-> "text/html",
       body |-> [valid |-> FALSE, json |-> None]],
      [kind |-> "http", status |-> 200, content_type |-> "application/json",
       body |-> [valid |-> FALSE, json |-> None]],
      [kind |-> "http", status |-> 200, content_type |-> "application/json",
       body |-> [valid |-> TRUE,
                 json |-> Obj([code |-> Str(<<"error">>), message |-> Str(<<"bad">>)])]] }
    \cup { [kind |-> "http", status |-> 200, content_type |-> "application/json",
            body |-> [valid |-> TRUE,
                      json |-> Obj([code |-> Str(<<"success">>), data |-> d])]] :
             d \in { Obj([status |-> Str(<<"IN_PROGRESS">>)]),
                     Obj([status |-> Str(<<"FAILURE">>)]),
                     Obj([status |-> Str(<<"SUCCESS">>)]),
                     Obj([status |-> Str(<<"SUCCESS">>),
                          image_url |-> Str(<<"http://h/i.png">>),
                          prompt |-> Str(<<"la", " ", "la">>)]),
                     Obj([status |-> Str(<<"SUCCESS">>), id |-> Str(<<"c1">>),
                          audio_url |-> Str(<<"http://h/a.mp3">>),
                          image_url |-> Str(<<"http://h/i.png">>),
                          prompt |-> Str(<<"la", " ", "la">>),
                          title |-> Str(<<"T">>)]) } }

----------------------------------------------------------------------------
(* Status queries of concurrent invocations *)

\* number of invocations whose status queries can be in flight at once
MaxCalls == 2

\* the clients of the invocations: one with an API key, one without
ClientNames == {"a", "b"}

\* the responses the concurrent queries can receive
ClientResponses ==
    { r \in PollResponses :
        \/ r.kind = "exception"
        \/ r.status = 500
        \/ r.content_type = "text/html"
        \/ /\ r.body.valid /\ HasKey(r.body.json, "data")
           /\ HasKey(r.body.json.f["data"], "audio_url") }

\* the clients as their constructor leaves them
InitialClients ==
    [ name \in ClientNames |->
        SunoAIClient("cookie", "https://api.vectorengine.ai",
                     IF name = "a" THEN "k" ELSE "") ]

ClientInit ==
    /\ response = None /\ result = None /\ pc = "clients"
    /\ HandlerIdle
    /\ FilesIdle
    /\ clients = InitialClients
    /\ calls = [ c \in 1..MaxCalls |-> None ]
    /\ seen = [ r \in ClientResponses |-> None ]
    /\ last = None

\* lines 144-149: a call builds its request from the fields of its client
\* and waits for the response
StartCall(c) ==
    /\ calls[c] = None
    /\ \E name \in ClientNames :
          calls' = [ calls EXCEPT ![c] =
                       [ client |-> name,
                         url |-> <<clients[name].api_base, "/suno/fetch/", "t1">>,
                         headers |-> clients[name].headers ] ]
    /\ UNCHANGED <<queryVars, handlerVars, fileVars, clients, seen, last>>

\* lines 150-448: the response arrives and the call returns
ReturnCall(c) ==
    /\ calls[c] # None
    /\ \E resp \in ClientResponses :
          LET name == calls[c].client
              outcome == StatusQuery(clients[name], resp)
              call == [ client |-> name, response |-> resp, result |-> outcome.ret,
                        overlapped |-> \E d \in 1..MaxCalls : d # c /\ calls[d] # None ]
          IN  /\ clients' = [clients EXCEPT ![name] = outcome.self]
              /\ last' = call
              /\ seen' = IF seen[resp] = None
                         THEN [seen EXCEPT ![resp] =
                                 [client |-> name, result |-> outcome.ret]]
                         ELSE seen
    /\ calls' = [calls EXCEPT ![c] = None]
    /\ UNCHANGED <<queryVars, handlerVars, fileVars>>

ClientNext == \E c \in 1..MaxCalls : StartCall(c) \/ ReturnCall(c)

ClientSpec == ClientInit /\ [][ClientNext]_vars

----------------------------------------------------------------------------
(* The command handlers SunoSingCommand.execute and SunoLyricsCommand.execute *)

\* command_name of the two handlers
Commands == {"suno_sing", "suno_lyrics"}

\* a variant with deadlines one poll interval later
max_wait_time_longer(command) == IF command = "suno_sing" THEN 310 ELSE 125

\* max_wait_time, lines 835 and 1217
max_wait_time(command) == IF command = "suno_sing" THEN 300 ELSE 120

\* the argument of asyncio.sleep, lines 847 and 1224
poll_interval(command) == IF command = "suno_sing" THEN 10 ELSE 5

\* lines 844 and 1221
max_consecutive_errors == 3

\* the time, in seconds, that can pass beyond the sleeps themselves before
\* the next reading of the clock: scheduling delay and the duration of the
\* requests; at the loop test and at the sleep every sleep so far was followed
\* by one status query
Lags ==
    LET unit == poll_interval(invocation.command)
        behind == elapsed - unit * requests.status
    IN  { unit * n : n \in 0..(MaxLag - behind \div unit) }

\* the named groups the host matched in the command text
MatchedGroups ==
    { EmptyDict,
      Obj([prompt |-> Str(<<" ">>)]),
      Obj([prompt |-> Str(<<"x">>)]),
      Obj([prompt |-> Str(<<" ">>), prompt2 |-> Str(<<>>)]),
      Obj([prompt2 |-> Str(<<" ", "x", " ">>)]) }

\* a message delivered to the chat: the sender used, the text template and
\* the values formatted into it
Msg(via, text, arg) == [via |-> via, text |-> text, arg |-> arg]
Text(text) == Msg("send_text", text, None)

\* return True, text, 1
Returned(text) == [k |-> "tuple", items |-> <<TRUE, text, 1>>]

\* where an exception raised at the current position goes: the lyrics handler
\* catches it inside its try block (lines 1199-1275), the song handler has none
Handler(inTry) ==
    IF invocation.command = "suno_lyrics" /\ inTry THEN "except" ELSE "escaped"

\* the messages of msgs are sent in turn; a send may raise, which ends the
\* step; when all are delivered the handler goes on to next with value
SendThen(msgs, inTry, next, value) ==
    \E n \in 0..Len(msgs) :
        /\ sent' = sent \o SubSeq(msgs, 1, n)
        /\ IF n < Len(msgs)
           THEN hpc' = Handler(inTry) /\ ret' = ret
           ELSE hpc' = next /\ ret' = value

NoFields ==
    [ song_url |-> None, image_url |-> None, lyrics |-> None, clip_id |-> None,
      title |-> None, author |-> None, lyrics_url |-> None ]

\* data.get(key) on the data record of a status result
DataGet(data, key) == IF key \in DOMAIN data THEN data[key] ELSE None

HandlerInit ==
    /\ response = None /\ result = None /\ pc = "handler"
    /\ ClientsIdle
    /\ FilesIdle
    /\ invocation \in [ command : Commands, matched_groups : MatchedGroups,
                        api_key : {"", "k"} ]
    /\ hpc = "start" /\ prompt = <<>> /\ task_id = None /\ client = None
    /\ consecutive_errors = 0 /\ found = NoFields /\ elapsed = 0
    /\ temp_file = "absent" /\ sent = <<>>
    /\ requests = [submit |-> 0, status |-> 0, download |-> 0]
    /\ ret = None /\ failed_run = 0 /\ terminal = "none"

\* a variant that takes the groups as they are, without strip()
matched_prompt_untrimmed(groups) ==
    LET first == GetDef(groups, "prompt", Str(<<>>)).s
    IN  IF first = <<>> THEN GetDef(groups, "prompt2", Str(<<>>)).s ELSE first

\* lines 751-754 and 1144-1147: prompt, or else prompt2, each stripped
matched_prompt(groups) ==
    LET first == Strip(GetDef(groups, "prompt", Str(<<>>)).s)
    IN  IF first = <<>> THEN Strip(GetDef(groups, "prompt2", Str(<<>>)).s)
        ELSE first

\* lines 751-758 and 1144-1151
ParsePrompt ==
    /\ hpc = "start"
    /\ LET text == matched_prompt(invocation.matched_groups)
       IN  /\ prompt' = text
           /\ IF text = <<>>
              THEN SendThen(<<Text("NEED_PROMPT")>>, FALSE,
                            "returned", Returned("MISSING_PROMPT"))
              ELSE hpc' = "config" /\ UNCHANGED <<sent, ret>>
    /\ UNCHANGED << queryVars, clientVars, fileVars, invocation, task_id, client, consecutive_errors,
                    found, elapsed, temp_file, requests, failed_run, terminal >>

\* lines 760-810 and 1153-1197
CheckConfig ==
    /\ hpc = "config"
    /\ IF invocation.api_key = ""
       THEN /\ SendThen(<<Text("NO_API_KEY"), Text("SET_API_KEY"),
                          Text("CONFIG_FILE_LOCATION")>>, FALSE,
                        "returned", Returned("NO_API_KEY"))
            /\ client' = client
       ELSE /\ client' = SunoAIClient("cookie", "https://api.vectorengine.ai",
                                      invocation.api_key)
            /\ hpc' = "submit"
            /\ UNCHANGED <<sent, ret>>
    /\ UNCHANGED << queryVars, clientVars, fileVars, invocation, prompt, task_id, consecutive_errors,
                    found, elapsed, temp_file, requests, failed_run, terminal >>

\* lines 812-844 and 1199-1221
Submit ==
    /\ hpc = "submit"
    /\ \E resp \in SubmitResponses :
          /\ response' = resp
          /\ task_id' = generate_song(prompt, resp)
          /\ requests' = [requests EXCEPT !.submit = @ + SubmitRequests(prompt)]
          /\ IF ~Truthy(task_id')
             THEN SendThen(<<Text("SUBMIT_FAILED"), Text("SEE_LOG")>>, TRUE,
                           "returned", Returned("SUBMIT_FAILED"))
             ELSE SendThen(<<Msg("send_text", "STATUS_MESSAGE", task_id')>>, TRUE,
                           "loop", ret)
    /\ elapsed' = 0
    /\ consecutive_errors' = 0
    /\ UNCHANGED << result, pc, clientVars, fileVars, invocation, prompt, client, found,
                    temp_file, failed_run, terminal >>

\* a variant of the loop condition that always holds
LoopTestAlways ==
    /\ hpc = "loop"
    /\ \E lag \in Lags : elapsed' = elapsed + lag
    /\ hpc' = "sleep"
    /\ UNCHANGED << queryVars, clientVars, fileVars, invocation, prompt, task_id, client,
                    consecutive_errors, found, temp_file, sent, requests, ret,
                    failed_run, terminal >>

\* lines 846 and 1223: the loop condition, after the clock has moved on
LoopTest ==
    /\ hpc = "loop"
    /\ \E lag \in Lags : elapsed' = elapsed + lag
    /\ hpc' = IF elapsed' < max_wait_time(invocation.command) THEN "sleep"
              ELSE "after_loop"
    /\ UNCHANGED << queryVars, clientVars, fileVars, invocation, prompt, task_id, client,
                    consecutive_errors, found, temp_file, sent, requests, ret,
                    failed_run, terminal >>

\* lines 847 and 1224
Sleep ==
    /\ hpc = "sleep"
    /\ \E lag \in Lags :
          elapsed' = elapsed + poll_interval(invocation.command) + lag
    /\ sent' = <<>>
    /\ hpc' = "query"
    /\ UNCHANGED << queryVars, clientVars, fileVars, invocation, prompt, task_id, client,
                    consecutive_errors, found, temp_file, requests, ret,
                    failed_run, terminal >>

\* lines 849 and 1226
Poll ==
    /\ hpc = "query"
    /\ \E resp \in PollResponses :
          LET outcome == StatusQuery(client, resp) IN
          /\ response' = resp
          /\ result' = outcome.ret
          /\ client' = outcome.self
    /\ requests' = [requests EXCEPT !.status = @ + 1]
    /\ failed_run' = IF result'.success THEN 0 ELSE failed_run + 1
    /\ terminal' = IF result'.success /\ result'.data.status \in {"SUCCESS", "FAILED"}
                   THEN result'.data.status ELSE terminal
    /\ hpc' = "handle"
    /\ UNCHANGED << pc, clientVars, fileVars, invocation, prompt, task_id, consecutive_errors, found,
                    elapsed, temp_file, sent, ret >>

\* a variant of the success branch without the exits on SUCCESS and FAILED
StatusReportedKeepsPolling ==
    /\ consecutive_errors' = 0
    /\ hpc' = "timeout_check"
    /\ UNCHANGED <<found, sent, ret>>

\* lines 850-868 and 1227-1244: the query succeeded
StatusReported ==
    /\ consecutive_errors' = 0
    /\ LET data == result.data
           status == DataGet(data, "status")
       IN  IF status = "SUCCESS"
           THEN IF invocation.command = "suno_sing"
                THEN /\ found' = [ found EXCEPT
                                     !.song_url = DataGet(data, "song_url"),
                                     !.image_url = DataGet(data, "image_url"),
                                     !.lyrics = DataGet(data, "lyrics"),
                                     !.clip_id = DataGet(data, "clip_id"),
                                     !.title = DataGet(data, "title"),
                                     !.author = DataGet(data, "author") ]
                     /\ hpc' = "after_loop"
                     /\ UNCHANGED <<sent, ret>>
                ELSE /\ found' = [found EXCEPT !.lyrics_url = DataGet(data, "lyrics_url")]
                     /\ SendThen(<< IF Truthy(found'.lyrics_url)
                                    THEN Msg("send_text", "LYRICS_DONE_LINK",
                                             found'.lyrics_url)
                                    ELSE Msg("send_text", "LYRICS_DONE_TASK_ID",
                                             task_id) >>,
                                 TRUE, "after_loop", ret)
           ELSE IF status = "FAILED"
           THEN /\ SendThen(<<Text("GENERATION_FAILED")>>, TRUE,
                            "returned", Returned("GENERATION_FAILED"))
                /\ found' = found
           ELSE IF status = "PROCESSING" /\ invocation.command = "suno_lyrics"
           THEN /\ SendThen(<<Msg("send_text", "PROGRESS", DataGet(data, "progress"))>>,
                            TRUE, "timeout_check", ret)
                /\ found' = found
           ELSE /\ hpc' = "timeout_check"
                /\ UNCHANGED <<found, sent, ret>>

\* a variant of the failure branch that never counts the error
StatusFailedUncounted ==
    /\ consecutive_errors' = consecutive_errors
    /\ found' = found
    /\ SendThen(<<Msg("send_text", "STATUS_WARNING", result.error)>>, TRUE,
                "timeout_check", ret)

\* a variant of the failure branch that counts the error and tells nobody
StatusFailedSilently ==
    /\ consecutive_errors' = consecutive_errors + 1
    /\ found' = found
    /\ hpc' = "timeout_check"
    /\ UNCHANGED <<sent, ret>>

\* lines 869-887 and 1245-1263: the query failed
StatusFailed ==
    /\ consecutive_errors' = consecutive_errors + 1
    /\ found' = found
    /\ LET error == result.error IN
       IF error = Str(<<"HTML_RESPONSE">>)
       THEN SendThen(<< Text("HTML_PAGE_RETURNED"), Text("TRY_OTHER_API_BASE"),
                        Text("API_BASE_1"), Text("API_BASE_2"), Text("API_BASE_3") >>,
                     TRUE, "returned", Returned("BAD_API_ADDRESS"))
       ELSE LET warning == IF error = Str(<<"JSON_DECODE_ERROR">>)
                           THEN Text("INVALID_JSON")
                           ELSE Msg("send_text", "STATUS_WARNING", error)
            IN  IF consecutive_errors' >= max_consecutive_errors
                THEN SendThen(<<warning, Text("ABORT_AFTER_CONSECUTIVE_ERRORS")>>,
                              TRUE, "returned", Returned("STATUS_QUERY_FAILED"))
                ELSE SendThen(<<warning>>, TRUE, "timeout_check", ret)

\* lines 850-887 and 1227-1263
HandleStatus ==
    /\ hpc = "handle"
    /\ IF result.success THEN StatusReported ELSE StatusFailed
    /\ UNCHANGED << queryVars, clientVars, fileVars, invocation, prompt, task_id, client, elapsed,
                    temp_file, requests, failed_run, terminal >>

\* lines 889-892 and 1265-1268
TimeoutCheck ==
    /\ hpc = "timeout_check"
    /\ IF elapsed >= max_wait_time(invocation.command)
       THEN SendThen(<<Text("TIMED_OUT")>>, TRUE, "returned", Returned("TIMED_OUT"))
       ELSE hpc' = "loop" /\ UNCHANGED <<sent, ret>>
    /\ UNCHANGED << queryVars, clientVars, fileVars, invocation, prompt, task_id, client,
                    consecutive_errors, found, elapsed, temp_file, requests,
                    failed_run, terminal >>

\* line 1270: the lyrics handler after its loop
LyricsComplete ==
    /\ hpc = "after_loop" /\ invocation.command = "suno_lyrics"
    /\ hpc' = "returned"
    /\ ret' = Returned("LYRICS_COMPLETE")
    /\ UNCHANGED << queryVars, clientVars, fileVars, invocation, prompt, task_id, client,
                    consecutive_errors, found, elapsed, temp_file, sent,
                    requests, failed_run, terminal >>

\* lines 1271-1275: except Exception in the lyrics handler
LyricsException ==
    /\ hpc = "except"
    /\ SendThen(<<Text("LYRICS_ERROR"), Text("SEE_LOG")>>, FALSE,
                "returned", Returned("LYRICS_EXCEPTION"))
    /\ UNCHANGED << queryVars, clientVars, fileVars, invocation, prompt, task_id, client,
                    consecutive_errors, found, elapsed, temp_file, requests,
                    failed_run, terminal >>

\* a variant of the message that carries the task ID alone
no_url_message_bare ==
    Msg("send_text", "COMPLETE_WITHOUT_URL", <<task_id, None, None>>)

\* lines 997-1005: the message sent when no song URL was found
no_url_message ==
    Msg("send_text", "COMPLETE_WITHOUT_URL",
        <<task_id, found.lyrics, found.image_url>>)

\* lines 894-902 and 985-1009: the song handler after its loop
Download ==
    /\ hpc = "after_loop" /\ invocation.command = "suno_sing"
    /\ IF Truthy(found.song_url)
       THEN /\ requests' = [requests EXCEPT !.download = @ + 1]
            /\ \E song_data \in {"none", "empty", "audio"} :
                  IF song_data = "audio"
                  THEN \/ /\ temp_file' = "written"
                          /\ hpc' = "relay"
                          /\ UNCHANGED <<sent, ret>>
                       \/ /\ temp_file' \in {"absent", "partial"}
                          /\ hpc' = "escaped"
                          /\ UNCHANGED <<sent, ret>>
                  ELSE /\ SendThen(<<Msg("send_text", "DOWNLOAD_FAILED",
                                         << found.lyrics, found.image_url,
                                            found.song_url >>)>>,
                                   FALSE, "returned", Returned("DOWNLOAD_FAILED"))
                       /\ temp_file' = temp_file
       ELSE /\ SendThen(<<no_url_message>>, FALSE,
                        "returned", Returned("SONG_COMPLETE"))
            /\ UNCHANGED <<requests, temp_file>>
    /\ UNCHANGED << queryVars, clientVars, fileVars, invocation, prompt, task_id, client,
                    consecutive_errors, found, elapsed, failed_run, terminal >>

\* a variant whose try statement has no finally clause: an exception of
\* send_forward leaves the handler with the file in place
RelayWithoutFinally ==
    /\ hpc = "relay"
    /\ requests' = [requests EXCEPT !.download =
                        @ + IF Truthy(found.image_url) THEN 1 ELSE 0]
    /\ \E image \in IF Truthy(found.image_url) THEN {TRUE, FALSE} ELSE {FALSE} :
          \/ /\ sent' = Append(sent, Msg("send_forward", "SONG_COMPLETE",
                                         << found.author, found.title,
                                            found.lyrics, found.song_url, image >>))
             /\ hpc' = "send_audio"
             /\ temp_file' = temp_file
          \/ /\ sent' = sent
             /\ hpc' = "escaped"
             /\ temp_file' = temp_file
    /\ UNCHANGED << queryVars, clientVars, fileVars, invocation, prompt, task_id, client,
                    consecutive_errors, found, elapsed, ret, failed_run, terminal >>

\* lines 904-954, and 981-984 when send_forward raises
Relay ==
    /\ hpc = "relay"
    /\ requests' = [requests EXCEPT !.download =
                        @ + IF Truthy(found.image_url) THEN 1 ELSE 0]
    /\ \E image \in IF Truthy(found.image_url) THEN {TRUE, FALSE} ELSE {FALSE} :
          \/ /\ sent' = Append(sent, Msg("send_forward", "SONG_COMPLETE",
                                         << found.author, found.title,
                                            found.lyrics, found.song_url, image >>))
             /\ hpc' = "send_audio"
             /\ temp_file' = temp_file
          \/ /\ sent' = sent
             /\ hpc' = "escaped"
             /\ temp_file' = "removed"
    /\ UNCHANGED << queryVars, clientVars, fileVars, invocation, prompt, task_id, client,
                    consecutive_errors, found, elapsed, ret, failed_run, terminal >>

\* the link sent when the audio itself could not be
SongLink == Msg("send_text", "SONG_LINK", found.song_url)

\* lines 956-984 and 1009
SendAudio ==
    /\ hpc = "send_audio"
    /\ temp_file' = "removed"
    /\ \E sender \in {"send_file", "send_voice", "send_text"} :
          \/ /\ sent' = Append(sent, IF sender = "send_text" THEN SongLink
                                     ELSE Msg(sender, "AUDIO", temp_file))
             /\ hpc' = "returned"
             /\ ret' = Returned("SONG_COMPLETE")
          \/ /\ sent' = Append(sent, SongLink)
             /\ hpc' = "returned"
             /\ ret' = Returned("SONG_COMPLETE")
          \/ /\ sent' = sent
             /\ hpc' = "escaped"
             /\ ret' = ret
    /\ UNCHANGED << queryVars, clientVars, fileVars, invocation, prompt, task_id, client,
                    consecutive_errors, found, elapsed, requests, failed_run,
                    terminal >>

HandlerNext ==
    \/ ParsePrompt \/ CheckConfig \/ Submit
    \/ LoopTest \/ Sleep \/ Poll \/ HandleStatus \/ TimeoutCheck
    \/ LyricsComplete \/ LyricsException
    \/ Download \/ Relay \/ SendAudio

HandlerSpec == HandlerInit /\ [][HandlerNext]_vars

\* the event loop resumes the handler after every await for as long as it
\* has a step to take
HandlerFairSpec == HandlerSpec /\ WF_vars(HandlerNext)

----------------------------------------------------------------------------
(* Song invocations that share the working directory, lines 894-1009 *)

\* the last second the clock reaches
MaxClock == 1

\* the concurrent invocations of the song command
Invocations == {"first", "second"}

\* line 899: temp_song_{int(time.time())}.mp3, named by its second
temp_file_name(second) == second

FileInit ==
    /\ response = None /\ result = None /\ pc = "files"
    /\ HandlerIdle
    /\ ClientsIdle
    /\ clock = 0
    /\ files = [ name \in 0..MaxClock |-> "absent" ]
    /\ songs = [ i \in Invocations |->
                   [ pc |-> "download", temp_file |-> None, audio |-> "none" ] ]

\* a second passes
Tick ==
    /\ clock < MaxClock
    /\ clock' = clock + 1
    /\ UNCHANGED <<queryVars, handlerVars, clientVars, files, songs>>

\* lines 895-901 and 985-996: the download returns; its audio is written to
\* the file named after the current second, or there is no audio and the
\* handler reports the failed download and returns
WriteTempFile(i) ==
    /\ songs[i].pc = "download"
    /\ \/ /\ files' = [files EXCEPT ![temp_file_name(clock)] = i]
          /\ songs' = [songs EXCEPT ![i].pc = "relay",
                                    ![i].temp_file = temp_file_name(clock)]
       \/ /\ songs' = [songs EXCEPT ![i].pc = "returned"]
          /\ files' = files
    /\ UNCHANGED <<queryVars, handlerVars, clientVars, clock>>

\* lines 981-984: if os.path.exists(temp_file): os.remove(temp_file)
Removed(name) == [files EXCEPT ![name] = "absent"]

\* lines 904-954: the cover is downloaded and the bundle forwarded; when
\* send_forward raises, the finally clause removes the file on the way out
Forward(i) ==
    /\ songs[i].pc = "relay"
    /\ \/ /\ songs' = [songs EXCEPT ![i].pc = "send"]
          /\ files' = files
       \/ /\ songs' = [songs EXCEPT ![i].pc = "escaped"]
          /\ files' = Removed(songs[i].temp_file)
    /\ UNCHANGED <<queryVars, handlerVars, clientVars, clock>>

\* lines 958-980: during the await of send_file or send_voice the file is
\* read; what is sent is what the file holds then, and a file that is gone
\* makes the send fail and the link go out instead, as it does on a host
\* with neither sender
SendFile(i) ==
    /\ songs[i].pc = "send"
    /\ \E audio \in {files[songs[i].temp_file], "link"} :
          songs' = [songs EXCEPT ![i].pc = "cleanup",
                                 ![i].audio = IF audio = "absent" THEN "link"
                                              ELSE audio]
    /\ UNCHANGED <<queryVars, handlerVars, clientVars, clock, files>>

\* lines 981-984 and 1009: the send is over; the finally clause removes the
\* file and the handler returns
RemoveTempFile(i) ==
    /\ songs[i].pc = "cleanup"
    /\ files' = Removed(songs[i].temp_file)
    /\ songs' = [songs EXCEPT ![i].pc = "returned"]
    /\ UNCHANGED <<queryVars, handlerVars, clientVars, clock>>

FileNext ==
    \/ Tick
    \/ \E i \in Invocations :
          WriteTempFile(i) \/ Forward(i) \/ SendFile(i) \/ RemoveTempFile(i)

FileSpec == FileInit /\ [][FileNext]_vars

----------------------------------------------------------------------------
(* Vocabulary of the properties *)

Done == pc = "done"

\* the query produced a result record
Succeeded == Done /\ result.success

\* the value found by following a chain of keys through nested objects
RECURSIVE Resolve(_, _)
Resolve(v, path) ==
    IF path = <<>> THEN v
    ELSE IF IsDict(v) /\ HasKey(v, Head(path))
         THEN Resolve(v.f[Head(path)], Tail(path))
         ELSE None

\* some candidate key of d holds a truthy value
HasCandidate(d, fields) ==
    IsDict(d) /\ \E i \in 1..Len(fields) : Truthy(Get(d, fields[i]))

\* the value under the first candidate key of d that holds a truthy value
FirstCandidate(d, fields) ==
    Get(d, fields[CHOOSE i \in 1..Len(fields) :
                      /\ Truthy(Get(d, fields[i]))
                      /\ \A j \in 1..(i - 1) : ~Truthy(Get(d, fields[j]))])

Cleaned(v) == IF IsStr(v) THEN Str(CleanUrl(v.s)) ELSE v

\* the first element of the list stored under a key of the data object
FirstItem(td, key) ==
    IF IsList(Get(td, key)) /\ Truthy(Get(td, key))
    THEN {Get(td, key).items[1]} ELSE {}

\* the objects in which the documentation places the media URL
DocumentedObjects(td) ==
    { d \in {td}
         \cup { Resolve(td, <<c>>) : c \in RangeOf(nested_keys) }
         \cup { Resolve(td, <<c, e>>) : c \in RangeOf(nested_keys),
                                        e \in RangeOf(nested_keys) }
         \cup UNION { FirstItem(td, l) : l \in ListKeys } : IsDict(d) }

\* the URLs present under a candidate field name at a documented place
DocumentedUrls(td) ==
    { CleanUrl(Get(d, potential_url_fields[i]).s) :
        <<d, i>> \in { x \in DocumentedObjects(td) \X (1..Len(potential_url_fields)) :
                         /\ IsStr(Get(x[1], potential_url_fields[x[2]]))
                         /\ CleanUrl(Get(x[1], potential_url_fields[x[2]]).s) # <<>> } }

OptionalFields ==
    {"song_url", "image_url", "lyrics", "title", "author", "clip_id"}

----------------------------------------------------------------------------
(* Properties *)

\* C1: whenever exactly one URL sits under a candidate field name at a
\* documented place of the data object (directly, one or two levels inside
\* clip/audio/result/data, or in the first element of a list under
\* results/clips/data), the query
\* succeeds and song_url is that URL without its surrounding whitespace and
\* backticks.
C1_UrlAtAnyDocumentedPlaceIsReturned ==
    (Done /\ DataIsObject /\ Cardinality(DocumentedUrls(TaskData)) = 1)
    => /\ result.success
       /\ \A u \in DocumentedUrls(TaskData) : result.data.song_url = Str(u)

\* the remote status token of the data object; None when absent
RemoteToken == Get(TaskData, "status")

\* the three-valued status the documentation assigns to a remote token
DocumentedStatus(tok) ==
    IF tok = Word("SUCCESS") THEN "SUCCESS"
    ELSE IF tok = Word("FAILURE") THEN "FAILED"
    ELSE "PROCESSING"

C3_AnyDataYieldsResult ==
    ( /\ Done /\ response.kind = "http" /\ response.status = 200
      /\ response.content_type \in JsonContentTypes
      /\ response.body.valid /\ IsDict(response.body.json)
      /\ Get(response.body.json, "code") = Word("success") )
    => result.success

\* C4: the query always ends with a dictionary that has success = True and
\* a data record, or success = False and an error value.
C4_NeverRaises ==
    Done => /\ "success" \in DOMAIN result
            /\ result.success => "data" \in DOMAIN result
            /\ ~result.success => "error" \in DOMAIN result

\* an exception raised inside the try block came back as an error value
C4_Witness ==
    /\ Done
    /\ TryBlock(response).out = "raise"
    /\ result = Failure(Str(<<TryBlock(response).e>>))

\* the object a JSON text carried in the data field decodes to
DecodedObject(v) == IF IsDict(v) THEN v ELSE v.items[1]

\* C5: a data field holding the JSON text of an object, or of a one-element
\* list containing an object, gives the same result as the object itself.
C5_RoundTrip ==
    \A v \in JsonDocs :
        ( /\ Done
          /\ IsDict(v) \/ (IsList(v) /\ Len(v.items) = 1 /\ IsDict(v.items[1]))
          /\ response = OkResponse(Str(JsonDumps(v))) )
        => result = get_task_status(OkResponse(DecodedObject(v)))

\* C6: in a result record each optional field is None or non-empty, never
\* an empty string.
C6_NoEmptyStringFields ==
    Succeeded => \A f \in OptionalFields : result.data[f] # Str(<<>>)

\* the four containers that exist as objects, in the order they are tried
ShallowObjects(td) ==
    SelectSeq([i \in 1..Len(nested_keys) |-> Resolve(td, <<nested_keys[i]>>)],
              IsDict)

SearchOrder ==
    << <<>>,
       <<"clip">>, <<"clip", "clip">>, <<"clip", "audio">>, <<"clip", "result">>,
       <<"audio">>, <<"audio", "clip">>, <<"audio", "audio">>, <<"audio", "result">>,
       <<"result">>, <<"result", "clip">>, <<"result", "audio">>, <<"result", "result">>,
       <<"data">>, <<"data", "clip">>, <<"data", "audio">>, <<"data", "result">> >>

\* the objects found at those places, in that order
SearchedObjects(td) ==
    SelectSeq([i \in 1..Len(SearchOrder) |-> Resolve(td, SearchOrder[i])], IsDict)

ResourceFields ==
    [ image_url |-> image_url_fields, lyrics |-> lyrics_fields,
      title |-> title_fields, author |-> author_fields,
      clip_id |-> clip_id_fields ]

\* C8: when prompt, audio_url or image_url is found on the data object
\* itself, a resource the data object does not hold is still taken from a
\* container (clip, audio, result, data) that holds it.
C8_MissingFieldsSearchedInContainers ==
    ( /\ Succeeded /\ DataIsObject
      /\ \E key \in {"prompt", "audio_url", "image_url"} :
            Truthy(Get(TaskData, key)) )
    => \A f \in DOMAIN ResourceFields :
          ( /\ ~HasCandidate(TaskData, ResourceFields[f])
            /\ \E i \in 1..Len(ShallowObjects(TaskData)) :
                  HasCandidate(ShallowObjects(TaskData)[i], ResourceFields[f]) )
          => Truthy(result.data[f])

\* the objects two levels inside the containers
DeepObjects(td) ==
    { d \in { Resolve(td, <<c, e>>) : c \in RangeOf(nested_keys),
                                      e \in RangeOf(nested_keys) } : IsDict(d) }

\* C9: a title, author, lyrics or image URL that exists only two levels
\* deep (such as clip.result.title), with no list in the data object, is
\* returned.
C9_ResourcesFoundTwoLevelsDeep ==
    ( /\ Succeeded /\ DataIsObject
      /\ \A l \in ListKeys : ~IsList(Get(TaskData, l)) )
    => \A f \in {"title", "author", "lyrics", "image_url"} :
          ( /\ ~HasCandidate(TaskData, ResourceFields[f])
            /\ \A i \in 1..Len(ShallowObjects(TaskData)) :
                  ~HasCandidate(ShallowObjects(TaskData)[i], ResourceFields[f])
            /\ \E d \in DeepObjects(TaskData) : HasCandidate(d, ResourceFields[f]) )
          => Truthy(result.data[f])

\* the keys under which a resource list is looked for, in order of preference
ResourceListKeys == <<"data", "results", "clips">>

\* the values under those keys that are not empty, in that order
ResourceLists == SelectSeq([i \in 1..3 |-> Get(TaskData, ResourceListKeys[i])], Truthy)

\* the resources are read from the first element of a list: the data object
\* has none of the keys prompt, audio_url, image_url, and the first non-empty
\* value under data, results, clips is a list
ListBranch ==
    /\ \A key \in {"prompt", "audio_url", "image_url"} : ~HasKey(TaskData, key)
    /\ ResourceLists # <<>>
    /\ IsList(ResourceLists[1])

\* the object the resources are read from first
SourceObject == IF ListBranch THEN ResourceLists[1].items[1] ELSE TaskData

\* C10: within one object the first candidate field name, in the documented
\* order, that holds a non-empty value determines the attribute: the media
\* URL of the data object, and title, author, lyrics of the object they are
\* read from (the data object, or the first element of its list).
C10_FirstCandidateWins ==
    (Succeeded /\ DataIsObject)
    => /\ HasCandidate(TaskData, potential_url_fields)
          => result.data.song_url =
                 Cleaned(FirstCandidate(TaskData, potential_url_fields))
       /\ \A f \in {"title", "author", "lyrics"} :
             HasCandidate(SourceObject, ResourceFields[f])
             => result.data[f] = FirstCandidate(SourceObject, ResourceFields[f])

\* title and name, or audio_url and url, on the data object: the first won
C10_Witness ==
    /\ Succeeded /\ DataIsObject
    /\ \/ /\ Get(TaskData, "title") = Word("A") /\ Get(TaskData, "name") = Word("B")
          /\ result.data.title = Word("A")
       \/ /\ Get(TaskData, "audio_url") = Word("A") /\ Get(TaskData, "url") = Word("B")
          /\ result.data.song_url = Word("A")

\* the response is an HTTP-200 JSON object whose code is "success"
SuccessEnvelope ==
    /\ response.kind = "http" /\ response.status = 200
    /\ response.content_type \in JsonContentTypes
    /\ response.body.valid /\ IsDict(response.body.json)
    /\ Get(response.body.json, "code") = Word("success")

\* C11: when the data field is a text that is no JSON document and holds no
\* candidate field, the first http(s) URL in it that ends in .mp3, .wav,
\* .aac, .flac or .ogg is returned as song_url.
C11_RawTextScanSuppliesUrl ==
    ( /\ Done /\ SuccessEnvelope
      /\ IsStr(TaskData) /\ ~IsJsonText(TaskData.s)
      /\ ReFindAll(TaskData.s) # <<>> )
    => /\ result.success
       /\ result.data.song_url = Word(ReFindAll(TaskData.s)[1])

\* the objects searched for the media URL before any list is looked at
BeforeLists(td) ==
    SearchedObjects(td)
    \o SelectSeq(<<Or(GetDef(td, "audio_info", EmptyDict),
                      GetDef(td, "audioInfo", EmptyDict))>>, IsDict)

\* the keys among results, clips, data that hold a non-empty list of objects
ObjectLists(td) ==
    { l \in ListKeys :
        /\ IsList(Get(td, l)) /\ Truthy(Get(td, l))
        /\ \A i \in 1..Len(Get(td, l).items) : IsDict(Get(td, l).items[i]) }

\* C12: when no object searched before the lists holds a media URL and one
\* list under results, clips or data does, song_url comes from the first
\* element of that list: it is the first candidate of that element, and it is
\* empty when the first element holds none.
C12_FirstListElementWins ==
    ( /\ Succeeded /\ DataIsObject
      /\ \A i \in 1..Len(BeforeLists(TaskData)) :
            ~HasCandidate(BeforeLists(TaskData)[i], potential_url_fields)
      /\ Cardinality(ObjectLists(TaskData)) = 1 )
    => \A l \in ObjectLists(TaskData) :
          LET first == Get(TaskData, l).items[1] IN
          IF HasCandidate(first, potential_url_fields)
          THEN result.data.song_url =
                   Cleaned(FirstCandidate(first, potential_url_fields))
          ELSE ~Truthy(result.data.song_url)

\* the values found by lines 210-401, before the clean-up
FoundResources == ExtractResources(TaskData, UrlSearch(TaskData))

\* the positions of a string that hold no whitespace
Inked(s) == { i \in 1..Len(s) : s[i] \notin Whitespace }

\* the string without its leading and trailing whitespace
Trimmed(s) ==
    IF Inked(s) = {} THEN <<>>
    ELSE SubSeq(s, CHOOSE i \in Inked(s) : \A j \in Inked(s) : i <= j,
                   CHOOSE i \in Inked(s) : \A j \in Inked(s) : i >= j)

\* trim, then drop one leading and one trailing backtick when the trimmed
\* string both starts and ends with one
Sanitize(s) ==
    LET t == Trimmed(s) IN
    IF t # <<>> /\ t[1] = Backtick /\ t[Len(t)] = Backtick
    THEN [i \in 1..(Len(t) - 2) |-> t[i + 1]]
    ELSE t

\* C13: in every result record song_url and image_url are the sanitized
\* found values: surrounding whitespace trimmed, then one leading and one
\* trailing backtick removed when both are there; a value that is no string
\* (nothing found) is returned as it is.
C13_UrlsAreSanitized ==
    (Succeeded /\ DataIsObject)
    => LET resources == FoundResources IN
       \A f \in {"song_url", "image_url"} :
          result.data[f] = IF IsStr(resources[f]) THEN Str(Sanitize(resources[f].s))
                           ELSE resources[f]

\* a wrapped and padded URL was unwrapped, and a one-sided backtick was kept
C13_Witness ==
    /\ Succeeded /\ DataIsObject
    /\ LET resources == FoundResources IN
       \E f \in {"song_url", "image_url"} :
          \/ /\ resources[f] = WrappedUrl
             /\ result.data[f] = Word("http://h/a.mp3")
          \/ /\ resources[f] = Str(<<Backtick, "http://h/a.mp3">>)
             /\ result.data[f] = resources[f]

\* C14: when the data object has no audio_url, image_url or prompt key and
\* holds one non-empty list of objects under clips, results or data, then a
\* clip_id, title or lyrics string that the first element holds, and that no
\* object searched before the lists holds, is returned from that element.
C14_ResourcesFromFirstListElement ==
    ( /\ Done /\ DataIsObject /\ ~Unhashable(RemoteToken)
      /\ \A key \in {"prompt", "audio_url", "image_url"} : ~HasKey(TaskData, key)
      /\ Cardinality(ObjectLists(TaskData)) = 1 )
    => \A l \in ObjectLists(TaskData) :
          \A f \in {"clip_id", "title", "lyrics"} :
             LET first == Get(TaskData, l).items[1] IN
             ( /\ HasCandidate(first, ResourceFields[f])
               /\ IsStr(FirstCandidate(first, ResourceFields[f]))
               /\ \A i \in 1..Len(BeforeLists(TaskData)) :
                     ~HasCandidate(BeforeLists(TaskData)[i], ResourceFields[f]) )
             => /\ result.success
                /\ result.data[f] = FirstCandidate(first, ResourceFields[f])

\* C15: an HTTP-200 JSON object whose code is not "success" gives success =
\* False with the message field as error, whatever the data field holds.
C15_NonSuccessCodeGivesMessage ==
    ( /\ Done /\ response.kind = "http" /\ response.status = 200
      /\ response.content_type \in JsonContentTypes
      /\ response.body.valid /\ IsDict(response.body.json)
      /\ Get(response.body.json, "code") # Word("success") )
    => result = Failure(Get(response.body.json, "message"))

\* code "error" with message "bad" and a data field that holds a finished song
C15_Witness ==
    /\ Done /\ response.kind = "http" /\ response.status = 200
    /\ response.content_type \in JsonContentTypes
    /\ response.body.valid /\ IsDict(response.body.json)
    /\ Get(response.body.json, "code") = Word("error")
    /\ Truthy(Get(response.body.json, "data"))
    /\ result = Failure(Word("bad"))

----------------------------------------------------------------------------
(* Properties of concurrent status queries and of the command handlers *)

Returns == hpc = "returned"

\* a message with this text was delivered since the handler last slept
Delivered(text) == \E i \in 1..Len(sent) : sent[i].text = text

\* a song, a cover or an audio file was relayed since the handler last slept
Relayed == \E i \in 1..Len(sent) : sent[i].via # "send_text"

\* C17: polling terminates early on SUCCESS or FAILED. After a status query
\* whose result has status SUCCESS or FAILED no step of the invocation issues
\* another status query. After FAILED nothing is downloaded, written or
\* relayed, and the handler leaves the loop at once: either the failure
\* message is delivered and the handler returns the failure value, or the
\* sender itself raised while delivering it.
C17_TerminalStatusEndsPolling ==
    [][ /\ terminal # "none" => requests'.status = requests.status
        /\ terminal' = "FAILED" =>
              /\ requests'.download = 0
              /\ temp_file' = "absent"
              /\ ~Relayed'
              /\ hpc' \in {"handle", "returned", "except", "escaped"}
              /\ Returns' =>
                    \/ /\ ret' = Returned("GENERATION_FAILED")
                       /\ Delivered("GENERATION_FAILED")'
                    \/ /\ ret' = Returned("LYRICS_EXCEPTION")
                       /\ ~Delivered("GENERATION_FAILED")' ]_vars

\* a second status query reported FAILED with time left, and the handler
\* delivered the failure message and returned
C17_Witness ==
    /\ terminal = "FAILED"
    /\ requests.status = 2
    /\ elapsed < max_wait_time(invocation.command)
    /\ Returns
    /\ ret = Returned("GENERATION_FAILED")
    /\ Delivered("GENERATION_FAILED")

\* the last status query failed and the handler has dealt with it
FailureHandled == result # None /\ ~result.success /\ hpc # "handle"

\* the error of the last status query is the one of an HTML page
HtmlError == result.error = Str(<<"HTML_RESPONSE">>)

\* the handler returned through the except clause of the lyrics handler
ReturnedFromExcept == Returns /\ ret = Returned("LYRICS_EXCEPTION")

\* the counter stays within 0..3 and, once a query has been dealt with, is
\* the number of failed status queries since the last successful one
CounterCountsFailedRun ==
    /\ consecutive_errors \in 0..max_consecutive_errors
    /\ hpc # "handle" => consecutive_errors = failed_run

Raising == hpc \in {"except", "escaped"}

\* the failure of the last status query was reported since the handler last
\* slept
Reported ==
    \/ Delivered("STATUS_WARNING")
    \/ Delivered("INVALID_JSON")
    \/ Delivered("HTML_PAGE_RETURNED")

\* the handler gave up because of failed status queries
AbortedOnErrors ==
    /\ Returns
    /\ ret \in {Returned("STATUS_QUERY_FAILED"), Returned("BAD_API_ADDRESS")}

\* a failed status query has been dealt with and the handler has not slept
\* since
FailureJustHandled ==
    /\ FailureHandled
    /\ hpc \in {"timeout_check", "loop", "sleep", "after_loop", "returned"}
    /\ ~ReturnedFromExcept

Blank(key) ==
    LET text == GetDef(invocation.matched_groups, key, Str(<<>>)).s
    IN  \A i \in 1..Len(text) : text[i] \in Whitespace

\* the invocation has a configuration error: neither group holds a prompt,
\* or the API key is empty
ConfigurationError ==
    \/ Blank("prompt") /\ Blank("prompt2")
    \/ invocation.api_key = ""

NoRequests == requests = [submit |-> 0, status |-> 0, download |-> 0]

\* C20: on a configuration error (no prompt left after trimming, or an empty
\* API key) the handler issues no HTTP request, never gets past the two
\* checks, and returns only with a non-zero status code after delivering the
\* error message of the check that failed; the one other way out is the
\* sender itself raising.
C20_ConfigurationErrorReturnsAtOnce ==
    ConfigurationError =>
        /\ NoRequests
        /\ hpc \in {"start", "config", "returned", "escaped"}
        /\ client = None
        /\ Returns =>
              /\ ret.items[3] # 0
              /\ IF Blank("prompt") /\ Blank("prompt2")
                 THEN ret = Returned("MISSING_PROMPT") /\ Delivered("NEED_PROMPT")
                 ELSE /\ ret = Returned("NO_API_KEY")
                      /\ Delivered("NO_API_KEY") /\ Delivered("CONFIG_FILE_LOCATION")

\* a prompt of whitespace only was refused although an API key is configured
C20_Witness ==
    /\ invocation.matched_groups = Obj([prompt |-> Str(<<" ">>), prompt2 |-> Str(<<>>)])
    /\ invocation.api_key = "k"
    /\ Returns
    /\ ret = Returned("MISSING_PROMPT")
    /\ Delivered("NEED_PROMPT")
    /\ NoRequests

\* C21: no exception escapes a command handler: whatever a collaborator does,
\* the invocation never ends with an exception handed to the host.
C21_NoExceptionEscapes == hpc # "escaped"

\* the song handler is past a status query that reported SUCCESS
SongSucceeded ==
    /\ invocation.command = "suno_sing"
    /\ terminal = "SUCCESS"
    /\ hpc # "handle"

\* C22: when the song job reaches SUCCESS and the result carries no audio
\* URL, the handler downloads nothing and writes no file; it returns the
\* completion value after one message that carries the task ID and the
\* lyrics and cover link of the result. The one other way out is the sender
\* itself raising.
C22_SuccessWithoutUrlIsAWarning ==
    (SongSucceeded /\ ~Truthy(result.data.song_url)) =>
        /\ requests.download = 0
        /\ temp_file = "absent"
        /\ hpc \in {"after_loop", "returned", "escaped"}
        /\ Returns =>
              /\ ret = Returned("SONG_COMPLETE")
              /\ sent = << Msg("send_text", "COMPLETE_WITHOUT_URL",
                               << task_id, result.data.lyrics,
                                  result.data.image_url >>) >>

\* a job that succeeded with lyrics and a cover but no audio URL was reported
\* with both, and the handler returned
C22_Witness ==
    /\ SongSucceeded
    /\ result.data.song_url = None
    /\ Truthy(result.data.lyrics) /\ Truthy(result.data.image_url)
    /\ Returns
    /\ ret = Returned("SONG_COMPLETE")
    /\ Len(sent) = 1

\* the response is an HTTP-200 JSON object with code "success"
SuccessfulSubmission(resp) ==
    /\ resp.kind = "http" /\ resp.status = 200
    /\ resp.content_type \in JsonContentTypes
    /\ resp.body.valid /\ IsDict(resp.body.json)
    /\ Get(resp.body.json, "code") = Str(<<"success">>)

\* the submission has been answered and no status query has been issued, so
\* that response holds the answer to the submission
Submitted == requests.submit = 1 /\ requests.status = 0

\* C23: a submission yields a task identifier only for an HTTP-200 JSON
\* object with code "success", and None for a transport exception, a non-200
\* status and a non-success code; for an empty prompt it yields None without
\* sending a request. A status query is issued only after a submission that
\* returned a non-empty task identifier; after any other submission the
\* handler polls never and returns, when its messages are delivered, the
\* value of a failed submission after saying so.
C23_PollingNeedsATaskIdentifier ==
    /\ \A resp \in SubmitResponses :
          generate_song(<<>>, resp) = None /\ SubmitRequests(<<>>) = 0
    /\ Submitted =>
          /\ task_id # None => SuccessfulSubmission(response)
          /\ ~SuccessfulSubmission(response) => task_id = None
    /\ requests.status > 0 => requests.submit = 1 /\ Truthy(task_id)
    /\ (requests.submit = 1 /\ ~Truthy(task_id)) =>
          /\ requests.status = 0
          /\ Returns \/ Raising
          /\ (Returns /\ ~ReturnedFromExcept) =>
                /\ ret = Returned("SUBMIT_FAILED")
                /\ Delivered("SUBMIT_FAILED")

\* the first status query of an invocation has been issued, for the task
\* identifier its submission returned
C23_Witness ==
    /\ requests.submit = 1
    /\ requests.status = 1
    /\ task_id = Str(<<"t1">>)
    /\ hpc = "handle"

\* the lyrics handler is past a status query that reported SUCCESS and has
\* sent its completion message
LyricsSucceeded ==
    /\ invocation.command = "suno_lyrics"
    /\ terminal = "SUCCESS"
    /\ hpc \in {"after_loop", "returned"}
    /\ ~ReturnedFromExcept

\* C24: when a lyrics job reaches SUCCESS and the status result carries
\* lyrics, the completion message sent to the user carries them.
C24_LyricsAreRelayed ==
    (LyricsSucceeded /\ Truthy(result.data.lyrics)) =>
        \E i \in 1..Len(sent) : sent[i].arg = result.data.lyrics

\* the invocation is over: the handler returned or handed an exception to
\* the host
Ended == hpc \in {"returned", "escaped"}

\* C25: every invocation comes to an end, and with every sleep advancing the
\* clock by at least the poll interval it issues at most 30 status queries
\* for a song and at most 24 for lyrics.
C25_InvocationEndsWithinQueryBudget ==
    /\ [](requests.status <= IF invocation.command = "suno_sing" THEN 30 ELSE 24)
    /\ <>Ended

\* a song invocation issued its 30th status query, with no SUCCESS, FAILED or
\* abort before it, and returned on the timeout
C25_Witness ==
    /\ invocation.command = "suno_sing"
    /\ requests.status = 30
    /\ Returns
    /\ ret = Returned("TIMED_OUT")

\* the wall-clock timeout of the invocation, in seconds
Deadline == IF invocation.command = "suno_sing" THEN 300 ELSE 120

\* this step issues a status query
IssuesQuery == requests'.status > requests.status

\* C26, as claimed: no status query is issued once the deadline has passed.
C26_NoQueryPastDeadline ==
    [][IssuesQuery => elapsed <= Deadline]_vars

\* C26, amended: the timeout is checked once per iteration. A handler starts
\* no poll iteration (the sleep and the status query after it) once the
\* deadline has been reached; a status query is issued only as the step after
\* the sleep of such an iteration, whatever the clock reads by then.
C26_NoIterationPastDeadline ==
    [][ /\ hpc' = "sleep" => hpc = "loop" /\ elapsed' < Deadline
        /\ hpc' = "query" => hpc = "sleep"
        /\ IssuesQuery => hpc = "query" ]_vars

\* a status query was issued past the deadline, in an iteration that started
\* before it
C26_Witness ==
    /\ hpc = "handle"
    /\ elapsed > Deadline
    /\ requests.status > 0

\* the handler is on its completion path: the song handler downloads, relays
\* or sends its completion message, or either handler returns its completion
\* value
OnCompletionPath ==
    \/ requests.download > 0
    \/ hpc \in {"relay", "send_audio"}
    \/ Delivered("COMPLETE_WITHOUT_URL")
    \/ /\ Returns
       /\ ret \in {Returned("SONG_COMPLETE"), Returned("LYRICS_COMPLETE")}

\* C27: a handler takes its completion path only if a status query of the
\* invocation returned status SUCCESS.
C27_CompletionNeedsSuccess == OnCompletionPath => terminal = "SUCCESS"

\* the invocation has written its file and has yet to send it
YetToSend(i) == songs[i].pc \in {"relay", "send"}

\* C28: concurrent song invocations do not interfere through the temporary
\* file: from the moment an invocation has written its file until it sends
\* it, the file exists and holds the audio that invocation downloaded, and
\* the audio an invocation sent is its own.
C28_TempFilesDoNotInterfere ==
    \A i \in Invocations :
        /\ YetToSend(i) => files[songs[i].temp_file] = i
        /\ songs[i].audio \in {"none", "link", i}

\* C29: once the song handler has written its temporary file completely,
\* the file is gone when the invocation ends, whether it returns after
\* sending the audio or the link, or an exception of the senders leaves it.
C29_TempFileRemovedAtEnd == Ended => temp_file # "written"

\* the forward message could not be sent: the exception left the handler
\* after the finally clause had removed the file
C29_Witness ==
    /\ hpc = "escaped"
    /\ temp_file = "removed"
    /\ ~ Delivered("SONG_COMPLETE")

----------------------------------------------------------------------------
(* Properties of the classification of failed status queries *)

\* the query has returned
Answered == pc = "done"

\* the response arrived with a status other than 200
NotOk == response.kind = "http" /\ response.status # 200

\* a 200 response whose Content-Type contains text/html
HtmlPage ==
    /\ response.kind = "http" /\ response.status = 200
    /\ response.content_type \in HtmlContentTypes

\* a 200 response that is no HTML page
Payload ==
    /\ response.kind = "http" /\ response.status = 200
    /\ response.content_type \notin HtmlContentTypes

\* the body of the response is JSON text for an object
ObjectBody == response.body.valid /\ IsDict(response.body.json)

\* the body is an object whose code field says success
SuccessBody ==
    /\ ObjectBody
    /\ Get(response.body.json, "code") = Word("success")

\* the five kinds of failed query and the error each is given
ListedFailure ==
    IF response.kind # "http" THEN None
    ELSE IF response.status # 200 THEN Failure(HttpError(response.status))
    ELSE IF HtmlPage THEN Failure(Word("HTML_RESPONSE"))
    ELSE IF ~ response.body.valid THEN Failure(Word("JSON_DECODE_ERROR"))
    ELSE IF ~ IsDict(response.body.json)
    THEN Failure(Word("INVALID_RESPONSE_FORMAT"))
    ELSE IF ~ SuccessBody THEN Failure(Get(response.body.json, "message"))
    ELSE None

\* C30 (as stated): a failed query is of one of five kinds, taken in this
\* order: a status other than 200 gives HTTP_<status>; an HTML content type
\* gives HTML_RESPONSE; a body that is not JSON gives JSON_DECODE_ERROR; a
\* JSON value that is no object gives INVALID_RESPONSE_FORMAT; an object
\* whose code is not success gives its message; and every failed query
\* carries the error of its kind.
C30_FailedQueryIsOneOfFiveKinds ==
    Answered =>
        /\ ListedFailure # None => result = ListedFailure
        /\ result.success = FALSE => ListedFailure # None

\* the response.json() of the HTTP library refuses the content type
RefusedContentType == Payload /\ response.content_type \notin JsonContentTypes

\* the query failed with the text of an exception as its error
FailedWith(e) == result = Failure(Str(<<e>>))

\* C30 (amended): the five kinds keep their order, and three kinds of
\* failure carry the text of an exception: a transport failure, a 200
\* response whose content type is neither HTML nor JSON (refused before its
\* body is decoded, whatever the body holds), and an exception raised while
\* a success response is normalised.
C30_FailedQueryIsOneOfEightKinds ==
    Answered =>
        IF response.kind = "exception" THEN FailedWith(response.e)
        ELSE IF NotOk \/ HtmlPage THEN result = ListedFailure
        ELSE IF RefusedContentType THEN FailedWith("ContentTypeError")
        ELSE IF ~ SuccessBody THEN result = ListedFailure
        ELSE result.success = FALSE =>
                /\ TryBlock(response).out = "raise"
                /\ FailedWith(TryBlock(response).e)

\* an HTML page whose body is nevertheless a JSON success object was
\* classified as HTML_RESPONSE
C30_Witness ==
    /\ Answered
    /\ HtmlPage
    /\ SuccessBody
    /\ result = Failure(Word("HTML_RESPONSE"))

====
